---- MODULE Spec2Model ----
(***************************************************************************)
(* Line Chart Assistant: the tabular-text parser of App                    *)
(* (parseRawInputToData), its caller handleParse and the React state of    *)
(* App that they read and write.                                           *)
(*                                                                         *)
(* A JavaScript string is a sequence of one-character strings, so that     *)
(* trim, split, the quote-stripping regex and parseFloat are computed      *)
(* character by character as the engine computes them.                     *)
(***************************************************************************)
EXTENDS Integers, Sequences, FiniteSets, TLC

VARIABLES inputData, parsingStatus, chartData, chartConfig, series, pc, frame, grid,
          presets, storage, newPresetName,
          labelOffsets, isDraggableMode, listeners, yDomain

\* Controls: the presets, the localStorage item "chartPresets" and the
\* name field of the preset panel.
presetVars == <<presets, storage, newPresetName>>

\* ChartDisplay: the offsets of the data labels, the drag mode, the
\* mousemove and mouseup listeners that drags have put on the document, and
\* the domain handed to the Y axis by the last render.
displayVars == <<labelOffsets, isDraggableMode, listeners, yDomain>>

vars ==
  <<inputData, parsingStatus, chartData, chartConfig, series, pc, frame, grid,
    presetVars, displayVars>>

(***************************************************************************)
(* Bounds of the input families.                                           *)
(***************************************************************************)
MaxTextLen == 5

MaxHeaderLen == 4

MaxCellLen == 5

MaxRows == 6

MaxRaggedRows == 3

MaxAppLen == 4

MaxSeries == 7

MaxGridRows == 5

MaxGridCols == 3

MaxFilled == 2

MaxPresets == 2

MaxClock == 2

\* The label offsets lie between -MaxOffset and MaxOffset.
MaxOffset == 1

\* The mouse buttons held down at once, each on a label.
MaxDrags == 2

(***************************************************************************)
(* Strings.                                                                *)
(***************************************************************************)
SetMin(S) == CHOOSE x \in S : \A y \in S : x <= y

SetMax(S) == CHOOSE x \in S : \A y \in S : x >= y

\* The characters String.prototype.trim removes, among those used here.
WhiteSpace == {" ", "\t", "\n", "\r"}

Quotes == {"\"", "'"}

Digits == <<"0", "1", "2", "3", "4", "5", "6", "7", "8", "9">>

LowerCase == <<"a", "b", "c", "d", "e", "f", "g", "h", "i", "j", "k", "l", "m", "n", "o", "p", "q", "r", "s", "t", "u", "v", "w", "x", "y", "z">>

UpperCase == <<"A", "B", "C", "D", "E", "F", "G", "H", "I", "J", "K", "L", "M", "N", "O", "P", "Q", "R", "S", "T", "U", "V", "W", "X", "Y", "Z">>

\* String.prototype.trim
Trim(s) ==
  LET keep == {i \in 1..Len(s) : s[i] \notin WhiteSpace}
  IN  IF keep = {} THEN <<>> ELSE SubSeq(s, SetMin(keep), SetMax(keep))

\* String.prototype.split with a one-character separator: always at least
\* one piece, the empty string splits into one empty piece.
RECURSIVE Split(_, _)
Split(s, d) ==
  LET at == {i \in 1..Len(s) : s[i] = d}
  IN  IF at = {} THEN <<s>>
      ELSE LET i == SetMin(at)
           IN  <<SubSeq(s, 1, i - 1)>> \o Split(SubSeq(s, i + 1, Len(s)), d)

\* String.prototype.split(/\r?\n/): every "\n" separates, and takes the
\* "\r" right before it along.
SplitLines(s) ==
  LET pieces == Split(s, "\n")
      chomp(p) == IF p # <<>> /\ p[Len(p)] = "\r" THEN SubSeq(p, 1, Len(p) - 1) ELSE p
  IN  [k \in 1..Len(pieces) |-> IF k < Len(pieces) THEN chomp(pieces[k]) ELSE pieces[k]]

\* Array.prototype.filter(line => line.trim() !== '')
RECURSIVE NonBlank(_)
NonBlank(ls) ==
  IF ls = <<>> THEN <<>>
  ELSE IF Trim(Head(ls)) # <<>> THEN <<Head(ls)>> \o NonBlank(Tail(ls))
       ELSE NonBlank(Tail(ls))

\* cell.replace(/^["']|["']$/g, ''): the match at the start and the match
\* at the end are found one after the other on what is left.
StripQuotes(s) ==
  LET a == IF s # <<>> /\ s[1] \in Quotes THEN Tail(s) ELSE s
  IN  IF a # <<>> /\ a[Len(a)] \in Quotes THEN SubSeq(a, 1, Len(a) - 1) ELSE a

\* String(undefined), what parseFloat sees for an index past the row's end.
Undefined == <<"u", "n", "d", "e", "f", "i", "n", "e", "d">>

NaN == [nan |-> TRUE, val |-> 0]

DigitVal(c) == (CHOOSE i \in 1..10 : Digits[i] = c) - 1

IsDigit(c) == \E i \in 1..10 : Digits[i] = c

RECURSIVE DigitsValue(_, _)
DigitsValue(s, acc) ==
  IF s = <<>> \/ ~IsDigit(s[1]) THEN acc
  ELSE DigitsValue(Tail(s), acc * 10 + DigitVal(s[1]))

\* parseFloat: leading white space is skipped, then the longest prefix that
\* is a decimal literal is read and the rest ignored.  The inputs of this
\* model hold no '.', no exponent after a digit and no "Infinity", so the
\* literal is an optional sign and digits; -0 is 0.
ParseFloat(s) ==
  LET keep == {i \in 1..Len(s) : s[i] \notin WhiteSpace}
      t    == IF keep = {} THEN <<>> ELSE SubSeq(s, SetMin(keep), Len(s))
      sgn  == IF t # <<>> /\ t[1] = "-" THEN -1 ELSE 1
      u    == IF t # <<>> /\ t[1] \in {"-", "+"} THEN Tail(t) ELSE t
  IN  IF u = <<>> \/ ~IsDigit(u[1]) THEN NaN
      ELSE [nan |-> FALSE, val |-> sgn * DigitsValue(u, 0)]

\* key.charAt(0).toUpperCase() + key.slice(1)
ToUpperCase(c) ==
  IF \E i \in 1..26 : LowerCase[i] = c
  THEN UpperCase[CHOOSE i \in 1..26 : LowerCase[i] = c]
  ELSE c

Capitalize(key) == IF key = <<>> THEN <<>> ELSE <<ToUpperCase(key[1])>> \o Tail(key)

(***************************************************************************)
(* Constants of App.                                                       *)
(***************************************************************************)
ChartTitle == <<"C", "h", "a", "r", "t", " ", "T", "i", "t", "l", "e">>

Category == <<"C", "a", "t", "e", "g", "o", "r", "y">>

Value == <<"V", "a", "l", "u", "e">>

LabelKey == <<"l", "a", "b", "e", "l">>

Auto == <<"a", "u", "t", "o">>

DEFAULT_CONFIG ==
  [ title |-> ChartTitle, xAxisLabel |-> Category, yAxisLabel |-> Value,
    grid |-> TRUE, dots |-> TRUE, strokeWidth |-> 2, smooth |-> TRUE,
    legend |-> TRUE, axisColor |-> "#64748b",
    xAxisArrowStart |-> FALSE, xAxisArrowEnd |-> FALSE,
    yAxisArrowStart |-> FALSE, yAxisArrowEnd |-> TRUE,
    xAxisStartZero |-> FALSE, yAxisStartZero |-> TRUE,
    xAxisMin |-> Auto, xAxisMax |-> Auto,
    yAxisMin |-> Auto, yAxisMax |-> Auto,
    xAxisTickFontSize |-> 12, yAxisTickFontSize |-> 12,
    xAxisTickInterval |-> 0, yAxisTickCount |-> 5, yAxisTickInterval |-> 0,
    xAxisTickType |-> "outside", yAxisTickType |-> "outside",
    xAxisTickSize |-> 6, yAxisTickSize |-> 6,
    xAxisTickLabelDistance |-> 0, yAxisTickLabelDistance |-> 0,
    showLabels |-> FALSE, labelFontSize |-> 11, labelDistance |-> 5,
    showXAxisLabel |-> TRUE, showYAxisLabel |-> TRUE,
    xAxisLabelPosition |-> "rightEnd", yAxisLabelPosition |-> "aboveArrow",
    xAxisLabelFontSize |-> 12, yAxisLabelFontSize |-> 12,
    xAxisLabelOffsetX |-> 0, xAxisLabelOffsetY |-> 0,
    yAxisLabelOffsetX |-> 0, yAxisLabelOffsetY |-> 0,
    fontFamily |-> "\"Source Han Sans SC\", \"Noto Sans SC\", \"Microsoft YaHei\", sans-serif" ]

(***************************************************************************)
(* ChartDisplay: the domain of the Y axis.  A bound is the number 0 or a   *)
(* parseFloat result, or one of recharts' keywords 'dataMin' and 'dataMax'.*)
(***************************************************************************)
Number(p) == [t |-> "number", nan |-> p.nan, val |-> p.val]

Zero == Number([nan |-> FALSE, val |-> 0])

DataMin == [t |-> "dataMin", nan |-> FALSE, val |-> 0]

DataMax == [t |-> "dataMax", nan |-> FALSE, val |-> 0]

\* As yAxisDomain, but an explicit yAxisMin wins over yAxisStartZero.
yAxisDomainMinFirst(config) ==
  << IF config.yAxisMin = Auto \/ config.yAxisMin = <<>>
     THEN (IF config.yAxisStartZero THEN Zero ELSE DataMin)
     ELSE Number(ParseFloat(config.yAxisMin)),
     IF config.yAxisMax = Auto \/ config.yAxisMax = <<>>
     THEN DataMax
     ELSE Number(ParseFloat(config.yAxisMax)) >>

yAxisDomain(config) ==
  << IF config.yAxisStartZero THEN Zero
     ELSE (IF config.yAxisMin = Auto \/ config.yAxisMin = <<>>
           THEN DataMin
           ELSE Number(ParseFloat(config.yAxisMin))),
     IF config.yAxisMax = Auto \/ config.yAxisMax = <<>>
     THEN DataMax
     ELSE Number(ParseFloat(config.yAxisMax)) >>

RECURSIVE JoinLines(_)
JoinLines(ls) ==
  IF ls = <<>> THEN <<>>
  ELSE IF Len(ls) = 1 THEN ls[1]
       ELSE ls[1] \o <<"\n">> \o JoinLines(Tail(ls))

DEFAULT_DATA ==
  JoinLines(<<
    <<"M", "o", "n", "t", "h", ",", " ", "S", "a", "l", "e", "s", ",", " ", "E", "x", "p", "e", "n", "s", "e", "s">>,
    <<"J", "a", "n", ",", " ", "4", "0", "0", "0", ",", " ", "2", "4", "0", "0">>,
    <<"F", "e", "b", ",", " ", "3", "0", "0", "0", ",", " ", "1", "3", "9", "8">>,
    <<"M", "a", "r", ",", " ", "2", "0", "0", "0", ",", " ", "9", "8", "0", "0">>,
    <<"A", "p", "r", ",", " ", "2", "7", "8", "0", ",", " ", "3", "9", "0", "8">>,
    <<"M", "a", "y", ",", " ", "1", "8", "9", "0", ",", " ", "4", "8", "0", "0">>,
    <<"J", "u", "n", ",", " ", "2", "3", "9", "0", ",", " ", "3", "8", "0", "0">> >>)

colors == <<"#2563eb", "#db2777", "#16a34a", "#d97706", "#9333ea", "#0891b2">>

(***************************************************************************)
(* parseRawInputToData.  Column and row indices are the code's, from 0.    *)
(***************************************************************************)
delimiters == <<",", "\t", ";">>

SampleLimit == 5

\* The value of a DataPoint field: the label is a string, a series value a
\* number.
Str(s) == [t |-> "string", s |-> s, n |-> 0]

Num(n) == [t |-> "number", s |-> <<>>, n |-> n]

\* lines.length < 2
InsufficientBelowOne(lines) == Len(lines) < 1

InsufficientBelowThree(lines) == Len(lines) < 3

Insufficient(lines) == Len(lines) < 2

\* count > maxCount
BetterOrEqual(count, maxCount) == count >= maxCount

Better(count, maxCount) == count > maxCount

RECURSIVE DelimiterLoop(_, _, _, _)
DelimiterLoop(headerLine, k, delimiter, maxCount) ==
  IF k > Len(delimiters) THEN delimiter
  ELSE LET d     == delimiters[k]
           count == Len(Split(headerLine, d)) - 1
       IN  IF Better(count, maxCount)
           THEN DelimiterLoop(headerLine, k + 1, d, count)
           ELSE DelimiterLoop(headerLine, k + 1, delimiter, maxCount)

DetectDelimiter(headerLine) == DelimiterLoop(headerLine, 1, ",", 0)

\* cell.trim().replace(...)
ParseCellStripFirst(cell) == Trim(StripQuotes(cell))

ParseCell(cell) == StripQuotes(Trim(cell))

parseLineOwnDelimiter(line, delimiter) ==
  LET cells == Split(line, DetectDelimiter(line))
  IN  [k \in 1..Len(cells) |-> ParseCell(cells[k])]

parseLineNoTrim(line, delimiter) ==
  LET cells == Split(line, delimiter)
  IN  [k \in 1..Len(cells) |-> StripQuotes(cells[k])]

parseLine(line, delimiter) ==
  LET cells == Split(line, delimiter)
  IN  [k \in 1..Len(cells) |-> ParseCell(cells[k])]

\* row[colIdx], undefined past the end of the row.
At(row, colIdx) == IF colIdx < Len(row) THEN row[colIdx + 1] ELSE Undefined

\* The inner loop over the sampled rows of one column; st is
\* <<isNumeric, hasData>>.  It stops at the first cell that is not a number.
RECURSIVE SampleLoop(_, _, _, _, _, _)
SampleLoop(dataRows, delimiter, checkLimit, colIdx, r, st) ==
  IF r >= checkLimit THEN st
  ELSE LET row == parseLine(dataRows[r + 1], delimiter)
       IN  IF Len(row) > colIdx
           THEN IF ParseFloat(row[colIdx + 1]).nan
                THEN <<FALSE, TRUE>>
                ELSE SampleLoop(dataRows, delimiter, checkLimit, colIdx, r + 1, <<st[1], TRUE>>)
           ELSE SampleLoop(dataRows, delimiter, checkLimit, colIdx, r + 1, st)

\* Math.min(dataRows.length, 5)
CheckLimitAll(dataRows) == Len(dataRows)

CheckLimit(dataRows) ==
  IF Len(dataRows) < SampleLimit THEN Len(dataRows) ELSE SampleLimit

\* isNumeric && hasData
QualifiesWithoutData(isNumeric, hasData) == isNumeric

Qualifies(isNumeric, hasData) == isNumeric /\ hasData

RECURSIVE ColumnLoop(_, _, _, _, _, _)
ColumnLoop(headers, dataRows, delimiter, checkLimit, colIdx, numericColumnIndices) ==
  IF colIdx >= Len(headers) THEN numericColumnIndices
  ELSE LET st == SampleLoop(dataRows, delimiter, checkLimit, colIdx, 0, <<TRUE, FALSE>>)
       IN  ColumnLoop(headers, dataRows, delimiter, checkLimit, colIdx + 1,
                      IF Qualifies(st[1], st[2]) THEN Append(numericColumnIndices, colIdx)
                      ELSE numericColumnIndices)

\* headers.map((_, i) => i).slice(1)
AllButFirst(headers) == [k \in 1..(Len(headers) - 1) |-> k]

SeriesIndicesAlwaysAll(numericColumnIndices, headers) == AllButFirst(headers)

\* As SeriesIndices, without the fallback to every column but the first.
SeriesIndicesNoFallback(numericColumnIndices, headers) == numericColumnIndices

SeriesIndices(numericColumnIndices, headers) ==
  IF Len(numericColumnIndices) > 0 THEN numericColumnIndices ELSE AllButFirst(headers)

\* point[key] = value on a JavaScript object: a key already present is
\* overwritten, a new one is added.
SetField(point, key, value) ==
  [k \in (DOMAIN point) \cup {key} |-> IF k = key THEN value ELSE point[k]]

RECURSIVE SeriesLoop(_, _, _, _, _)
SeriesLoop(headers, row, seriesIndices, k, point) ==
  IF k > Len(seriesIndices) THEN point
  ELSE LET colIdx == seriesIndices[k]
           key    == headers[colIdx + 1]
           val    == ParseFloat(At(row, colIdx))
       IN  SeriesLoop(headers, row, seriesIndices, k + 1,
                      SetField(point, key, Num(IF val.nan THEN 0 ELSE val.val)))

\* if (row.length === 0) return
SkipRowEmptyLabel(row) == Len(row) = 0 \/ row[1] = <<>>

SkipRow(row) == Len(row) = 0

RECURSIVE RowLoop(_, _, _, _, _, _)
RowLoop(headers, dataRows, delimiter, seriesIndices, i, data) ==
  IF i > Len(dataRows) THEN data
  ELSE LET row == parseLine(dataRows[i], delimiter)
       IN  IF SkipRow(row)
           THEN RowLoop(headers, dataRows, delimiter, seriesIndices, i + 1, data)
           ELSE LET label == row[1]
                    point == [k \in {LabelKey} |-> Str(label)]
                IN  RowLoop(headers, dataRows, delimiter, seriesIndices, i + 1,
                            Append(data, SeriesLoop(headers, row, seriesIndices, 1, point)))

\* headers[0] || "Category"
XAxisLabelFirstHeader(headers) == headers[1]

XAxisLabel(headers) == IF headers[1] # <<>> THEN headers[1] ELSE Category

\* seriesKeys.length === 1 ? seriesKeys[0] : "Value"
YAxisLabelFirstKey(seriesKeys) == IF Len(seriesKeys) >= 1 THEN seriesKeys[1] ELSE Value

YAxisLabel(seriesKeys) == IF Len(seriesKeys) = 1 THEN seriesKeys[1] ELSE Value

\* The frame of no call.
NoFrame ==
  [ threw |-> FALSE, lines |-> <<>>, delimiter |-> "", headers |-> <<>>,
    dataRows |-> <<>>, numericColumnIndices |-> <<>>, seriesIndices |-> <<>>,
    seriesKeys |-> <<>>, data |-> <<>>, suggestedConfig |-> <<>> ]

\* The locals and the outcome of one call: threw, or data, seriesKeys and
\* suggestedConfig returned.
parseRawInputToData(input) ==
  LET lines == NonBlank(SplitLines(Trim(input)))
  IN  IF Insufficient(lines)
      THEN [NoFrame EXCEPT !.threw = TRUE, !.lines = lines]
      ELSE LET headerLine == lines[1]
               delimiter  == DetectDelimiter(headerLine)
               headers    == parseLine(headerLine, delimiter)
               dataRows   == Tail(lines)
               checkLimit == CheckLimit(dataRows)
               numericColumnIndices ==
                 ColumnLoop(headers, dataRows, delimiter, checkLimit, 1, <<>>)
               seriesIndices == SeriesIndices(numericColumnIndices, headers)
               seriesKeys == [k \in 1..Len(seriesIndices) |-> headers[seriesIndices[k] + 1]]
               data       == RowLoop(headers, dataRows, delimiter, seriesIndices, 1, <<>>)
           IN  [ threw |-> FALSE, lines |-> lines, delimiter |-> delimiter,
                 headers |-> headers, dataRows |-> dataRows,
                 numericColumnIndices |-> numericColumnIndices,
                 seriesIndices |-> seriesIndices, seriesKeys |-> seriesKeys,
                 data |-> data,
                 suggestedConfig |->
                   [ title |-> ChartTitle,
                     xAxisLabel |-> XAxisLabel(headers),
                     yAxisLabel |-> YAxisLabel(seriesKeys),
                     xAxisLabelPosition |-> "rightEnd",
                     yAxisLabelPosition |-> "aboveArrow" ] ]

\* { ...DEFAULT_CONFIG, ...suggestedConfig }: the previous configuration is
\* dropped.
MergeOntoDefaults(prev, over) ==
  [k \in (DOMAIN DEFAULT_CONFIG) \cup (DOMAIN over) |->
     IF k \in DOMAIN over THEN over[k] ELSE DEFAULT_CONFIG[k]]

\* { ...prev, ...suggestedConfig }
Merge(prev, over) ==
  [k \in (DOMAIN prev) \cup (DOMAIN over) |-> IF k \in DOMAIN over THEN over[k] ELSE prev[k]]

newSeriesShortPalette(seriesKeys) ==
  [index \in 1..Len(seriesKeys) |->
     [ dataKey |-> seriesKeys[index],
       name    |-> Capitalize(seriesKeys[index]),
       color   |-> colors[((index - 1) % (Len(colors) - 1)) + 1] ]]

newSeries(seriesKeys) ==
  [index \in 1..Len(seriesKeys) |->
     [ dataKey |-> seriesKeys[index],
       name    |-> Capitalize(seriesKeys[index]),
       color   |-> colors[((index - 1) % Len(colors)) + 1] ]]

(***************************************************************************)
(* Input texts.                                                            *)
(***************************************************************************)
AllSeqs(A, n) == UNION {[1..k -> A] : k \in 0..n}

\* Every text of line breaks, blanks and one digit.
LineTexts == AllSeqs({"\n", "\r", " ", "1"}, MaxTextLen)

\* Every header of delimiters and a letter, over one data line that holds
\* the three delimiters in other proportions.
DataLineSamples ==
  { <<"1", ";", "2", ";", "3", ",", "4">>,
    <<"5", "\t", "6", "\t", "7", "\t", "8", ",", "9", ";", "0">> }

HeaderTexts ==
  { <<"h">> \o h \o <<"\n">> \o d :
      h \in AllSeqs({",", "\t", ";", "h"}, MaxHeaderLen), d \in DataLineSamples }

\* One cell of blanks, quotes, a letter and a digit, as the label and as
\* the value of the one data line of a two-column table.
CellTexts ==
  { <<"k", ",", "v", "\n">> \o c \o <<",">> \o c :
      c \in AllSeqs({" ", "\"", "'", "a", "1"}, MaxCellLen) }

Tables(header, kinds, maxRows) ==
  { JoinLines(<<header>> \o rows) : rows \in UNION {[1..n -> kinds] : n \in 1..maxRows} }

\* A three-column table of up to MaxRows data lines, more than are sampled,
\* each full, or with a cell that is no number, or short.
RowKinds ==
  { <<"x", ",", "1", ",", "2">>,
    <<"x", ",", "a", ",", "2">>,
    <<"x">> }

TableHeader == <<"k", ",", "A", ",", "B">>

TableTexts == Tables(TableHeader, RowKinds, MaxRows)

\* Short tables of ragged lines: short, wider than the header, a cell that
\* is no number in either column, a negative number; under a header of
\* distinct names, one that repeats a name and one that names a series
\* "label".
RaggedKinds ==
  RowKinds \cup
  { <<"y", ",", "3", ",", "a">>,
    <<"y", ",", "4">>,
    <<"y", ",", "-", "5", ",", "6", ",", "7">> }

RaggedHeaders ==
  { TableHeader,
    <<"k", ",", "A", ",", "A">>,
    <<"k", ",", "l", "a", "b", "e", "l", ",", "B">> }

RaggedTexts == UNION {Tables(h, RaggedKinds, MaxRaggedRows) : h \in RaggedHeaders}

\* Every header of delimiters and a letter, whose first cell may be empty,
\* over the same data lines.
BareHeaderTexts ==
  { h \o <<"\n">> \o d :
      h \in AllSeqs({",", "\t", ";", "h"}, MaxHeaderLen), d \in DataLineSamples }

\* One line of numbers under a header of up to MaxSeries series columns,
\* more than there are colours, each named in lower case or in upper case.
JoinCells(cells) ==
  LET F[k \in 0..Len(cells)] ==
        IF k = 0 THEN <<>>
        ELSE IF k = 1 THEN cells[1]
        ELSE F[k - 1] \o <<",">> \o cells[k]
  IN  F[Len(cells)]

SeriesNames == { <<"a", "b">>, <<"C">> }

WideTexts ==
  { JoinLines(<< JoinCells(<< <<"k">> >> \o names),
                JoinCells(<< <<"x">> >> \o [k \in 1..Len(names) |-> <<"1">>]) >>) :
      names \in AllSeqs(SeriesNames, MaxSeries) }

\* The first three lines of DEFAULT_DATA.
ExampleText ==
  JoinLines(<< <<"M","o","n","t","h",","," ","S","a","l","e","s",","," ",
                 "E","x","p","e","n","s","e","s">>,
               <<"J","a","n",","," ","4","0","0","0",","," ","2","4","0","0">>,
               <<"F","e","b",","," ","3","0","0","0",","," ","1","3","9","8">> >>)

\* A table with a series column named 'label'.
LabelText == <<"k", ",">> \o LabelKey \o <<",", "B", "\n", "x", ",", "1", ",", "2">>

ParseInputs ==
  LineTexts \cup HeaderTexts \cup CellTexts \cup TableTexts \cup RaggedTexts
    \cup BareHeaderTexts \cup WideTexts \cup {ExampleText, LabelText}

\* What the user can type into the text area between two parses.
AppTexts == AllSeqs({"\n", ",", "1"}, MaxAppLen) \cup {DEFAULT_DATA}

(***************************************************************************)
(* App: state and handlers.                                                *)
(***************************************************************************)
\* localStorage.getItem of an item that was never set: null.
NoItem == [set |-> FALSE, list |-> <<>>]

\* useState<LabelOffset>({})
NoOffsets == [key \in {} |-> [dx |-> 0, dy |-> 0]]

IDLE == "IDLE"

PARSING == "PARSING"

SUCCESS == "SUCCESS"

ERROR == "ERROR"

Init ==
  /\ inputData = DEFAULT_DATA
  /\ parsingStatus = IDLE
  /\ chartData = <<>>
  /\ chartConfig = DEFAULT_CONFIG
  /\ series = <<>>
  /\ pc = "idle"
  /\ frame = NoFrame
  /\ grid = <<>>
  /\ presets = <<>>
  /\ storage = NoItem
  /\ newPresetName = <<>>
  /\ labelOffsets = NoOffsets
  /\ isDraggableMode = FALSE
  /\ listeners = <<>>
  /\ yDomain = yAxisDomain(DEFAULT_CONFIG)

\* The text area's onChange: setInputData(e.target.value).
SetInputData ==
  /\ pc = "idle"
  /\ \E text \in AppTexts :
       /\ text # inputData
       /\ inputData' = text
  /\ UNCHANGED <<parsingStatus, chartData, chartConfig, series, pc, frame>>
  /\ UNCHANGED <<grid, presetVars, displayVars>>

\* handleParse, up to the call of parseRawInputToData.
HandleParseBegin ==
  /\ pc = "idle"
  /\ parsingStatus' = PARSING
  /\ pc' = "parsing"
  /\ UNCHANGED <<inputData, chartData, chartConfig, series, frame>>
  /\ UNCHANGED <<grid, presetVars, displayVars>>

\* The parse button, disabled while parsing and on blank input.
ClickParseAnyText ==
  /\ parsingStatus # PARSING
  /\ HandleParseBegin

ClickParse ==
  /\ parsingStatus # PARSING
  /\ Trim(inputData) # <<>>
  /\ HandleParseBegin

\* The call parseRawInputToData(inputData) inside the try block.
CallParse ==
  /\ pc = "parsing"
  /\ frame' = parseRawInputToData(inputData)
  /\ pc' = "parsed"
  /\ UNCHANGED <<inputData, parsingStatus, chartData, chartConfig, series>>
  /\ UNCHANGED <<grid, presetVars, displayVars>>

\* The rest of the try block, after the call has returned.
HandleParseCommitKeepsStatus ==
  /\ pc = "parsed"
  /\ ~frame.threw
  /\ chartData' = frame.data
  /\ chartConfig' = Merge(chartConfig, frame.suggestedConfig)
  /\ series' = newSeries(frame.seriesKeys)
  /\ pc' = "idle"
  /\ frame' = NoFrame
  /\ UNCHANGED <<inputData, parsingStatus>>
  /\ UNCHANGED <<grid, presetVars, displayVars>>

HandleParseCommitKeepsColours ==
  /\ pc = "parsed"
  /\ ~frame.threw
  /\ chartData' = frame.data
  /\ chartConfig' = Merge(chartConfig, frame.suggestedConfig)
  /\ series' = [i \in 1..Len(frame.seriesKeys) |->
                  IF i <= Len(series) /\ series[i].dataKey = frame.seriesKeys[i]
                  THEN series[i] ELSE newSeries(frame.seriesKeys)[i]]
  /\ parsingStatus' = SUCCESS
  /\ pc' = "idle"
  /\ frame' = NoFrame
  /\ UNCHANGED inputData
  /\ UNCHANGED <<grid, presetVars, displayVars>>

HandleParseCommit ==
  /\ pc = "parsed"
  /\ ~frame.threw
  /\ chartData' = frame.data
  /\ chartConfig' = Merge(chartConfig, frame.suggestedConfig)
  /\ series' = newSeries(frame.seriesKeys)
  /\ parsingStatus' = SUCCESS
  /\ pc' = "idle"
  /\ frame' = NoFrame
  /\ UNCHANGED inputData
  /\ UNCHANGED <<grid, presetVars, displayVars>>

\* The catch block.
HandleParseCatchClears ==
  /\ pc = "parsed"
  /\ frame.threw
  /\ parsingStatus' = ERROR
  /\ chartData' = <<>>
  /\ series' = <<>>
  /\ pc' = "idle"
  /\ frame' = NoFrame
  /\ UNCHANGED <<inputData, chartConfig>>
  /\ UNCHANGED <<grid, presetVars, displayVars>>

HandleParseCatch ==
  /\ pc = "parsed"
  /\ frame.threw
  /\ parsingStatus' = ERROR
  /\ pc' = "idle"
  /\ frame' = NoFrame
  /\ UNCHANGED <<inputData, chartData, chartConfig, series>>
  /\ UNCHANGED <<grid, presetVars, displayVars>>

Next ==
  \/ SetInputData
  \/ ClickParse
  \/ CallParse
  \/ HandleParseCommit
  \/ HandleParseCatch

Spec == Init /\ [][Next]_vars

(***************************************************************************)
(* App with the style tab: parses of a few texts between edits of the      *)
(* configuration and of the series colours.                                *)
(***************************************************************************)
\* A table that parses to two series, one that parses to one, the example
\* with its own keys, a one-line text that fails.
EditTexts ==
  { ExampleText,
    JoinLines(<< TableHeader, <<"x", ",", "1", ",", "2">> >>),
    JoinLines(<< TableHeader, <<"x", ",", "a", ",", "2">> >>),
    TableHeader }

EditTitles == { <<"T">> }

EditPositions == { "rightEnd", "bottom" }

COLORS == colors

\* The colours the model's user picks: the first, which is the one a parse
\* gives the first series, and the last.
EditColors == { COLORS[1], COLORS[Len(COLORS)] }

SetEditText ==
  /\ pc = "idle"
  /\ \E text \in EditTexts :
       /\ text # inputData
       /\ inputData' = text
  /\ UNCHANGED <<parsingStatus, chartData, chartConfig, series, pc, frame>>
  /\ UNCHANGED <<grid, presetVars, displayVars>>

\* updateConfig(key, value): setConfig({ ...config, [key]: value }), from
\* the title field, the x-axis label position list and the grid checkbox.
UpdateConfig ==
  /\ pc = "idle"
  /\ \/ \E value \in EditTitles : chartConfig' = [chartConfig EXCEPT !.title = value]
     \/ \E value \in EditPositions :
          chartConfig' = [chartConfig EXCEPT !.xAxisLabelPosition = value]
     \/ chartConfig' = [chartConfig EXCEPT !.grid = ~chartConfig.grid]
  /\ UNCHANGED <<inputData, parsingStatus, chartData, series, pc, frame>>
  /\ UNCHANGED <<grid, presetVars, displayVars>>

\* updateSeriesColor(index, color), index counted from 1 here.
UpdateSeriesColor ==
  /\ pc = "idle"
  /\ \E index \in 1..Len(series), color \in EditColors :
       series' = [series EXCEPT ![index].color = color]
  /\ UNCHANGED <<inputData, parsingStatus, chartData, chartConfig, pc, frame>>
  /\ UNCHANGED <<grid, presetVars, displayVars>>

NextEdit ==
  \/ SetEditText
  \/ UpdateConfig
  \/ UpdateSeriesColor
  \/ ClickParse
  \/ CallParse
  \/ HandleParseCommit
  \/ HandleParseCatch

SpecEdit == Init /\ [][NextEdit]_vars

(***************************************************************************)
(* Controls: the preset panel.                                             *)
(***************************************************************************)
\* Number.prototype.toString of a natural number.
RECURSIVE NumberToString(_)
NumberToString(n) ==
  IF n < 10 THEN <<Digits[n + 1]>> ELSE NumberToString(n \div 10) \o <<Digits[(n % 10) + 1]>>

\* JSON.stringify of a list of presets, as the list JSON.parse gives back:
\* a preset holds strings, booleans and finite numbers only, each of which
\* JSON writes and reads as it is; the field order is that of the object.
Stringify(list) ==
  [ set  |-> TRUE,
    list |-> [i \in 1..Len(list) |->
                [ id        |-> list[i].id,
                  name      |-> list[i].name,
                  config    |-> [k \in DOMAIN list[i].config |-> list[i].config[k]],
                  createdAt |-> list[i].createdAt ]] ]

\* savePresetsToStorage(updatedPresets)
savePresetsToStorage(updatedPresets) ==
  /\ storage' = Stringify(updatedPresets)
  /\ presets' = updatedPresets

\* What the model's user types into the name field: blanks, a name between
\* blanks.
PresetNames == { <<" ">>, <<" ", "p", " ">> }

\* Date.now(): the wall clock, which may give the same value twice and may
\* be set back.
Clock == 1..MaxClock

\* The name field's onChange: setNewPresetName(e.target.value).
SetNewPresetName ==
  /\ pc = "idle"
  /\ \E name \in PresetNames : newPresetName' = name
  /\ UNCHANGED <<inputData, parsingStatus, chartData, chartConfig, series, pc, frame, grid>>
  /\ UNCHANGED <<presets, storage, displayVars>>

\* createPreset, from the button or the Enter key.
CreatePresetDefaultConfig ==
  /\ pc = "idle"
  /\ \/ /\ Trim(newPresetName) = <<>>
        /\ UNCHANGED presetVars
     \/ /\ Trim(newPresetName) # <<>>
        /\ Len(presets) < MaxPresets
        /\ \E now \in Clock :
             savePresetsToStorage(
               Append(presets, [ id        |-> NumberToString(now),
                                 name      |-> Trim(newPresetName),
                                 config    |-> DEFAULT_CONFIG,
                                 createdAt |-> now ]))
        /\ newPresetName' = <<>>
  /\ UNCHANGED <<inputData, parsingStatus, chartData, chartConfig, series, pc, frame, grid>>
  /\ UNCHANGED displayVars

CreatePreset ==
  /\ pc = "idle"
  /\ \/ /\ Trim(newPresetName) = <<>>
        /\ UNCHANGED presetVars
     \/ /\ Trim(newPresetName) # <<>>
        /\ Len(presets) < MaxPresets
        /\ \E now \in Clock :
             savePresetsToStorage(
               Append(presets, [ id        |-> NumberToString(now),
                                 name      |-> Trim(newPresetName),
                                 config    |-> [k \in DOMAIN chartConfig |-> chartConfig[k]],
                                 createdAt |-> now ]))
        /\ newPresetName' = <<>>
  /\ UNCHANGED <<inputData, parsingStatus, chartData, chartConfig, series, pc, frame, grid>>
  /\ UNCHANGED displayVars

\* loadPreset(preset), preset the index-th of the list shown.
LoadPresetAt(index) ==
  /\ pc = "idle"
  /\ chartConfig' = [k \in DOMAIN presets[index].config |-> presets[index].config[k]]
  /\ UNCHANGED <<inputData, parsingStatus, chartData, series, pc, frame, grid>>
  /\ UNCHANGED <<presetVars, displayVars>>

LoadPreset == \E index \in 1..Len(presets) : LoadPresetAt(index)

\* presets.filter(p => p.id !== id)
KeepOtherIds(list, id) ==
  LET F[k \in 0..Len(list)] ==
        IF k = 0 THEN <<>>
        ELSE IF list[k].id # id THEN Append(F[k - 1], list[k]) ELSE F[k - 1]
  IN  F[Len(list)]

\* deletePreset(preset.id), preset the index-th of the list shown.
DeletePresetAt(index) ==
  /\ pc = "idle"
  /\ savePresetsToStorage(KeepOtherIds(presets, presets[index].id))
  /\ UNCHANGED <<inputData, parsingStatus, chartData, chartConfig, series, pc, frame, grid>>
  /\ UNCHANGED <<newPresetName, displayVars>>

DeletePreset == \E index \in 1..Len(presets) : DeletePresetAt(index)

\* updateConfig from the title field and the grid checkbox.
UpdatePresetConfig ==
  /\ pc = "idle"
  /\ \/ \E value \in EditTitles \cup {ChartTitle} :
          chartConfig' = [chartConfig EXCEPT !.title = value]
     \/ chartConfig' = [chartConfig EXCEPT !.grid = ~chartConfig.grid]
  /\ UNCHANGED <<inputData, parsingStatus, chartData, series, pc, frame, grid>>
  /\ UNCHANGED <<presetVars, displayVars>>

NextPreset ==
  \/ SetNewPresetName
  \/ CreatePreset
  \/ LoadPreset
  \/ DeletePreset
  \/ UpdatePresetConfig

SpecPreset == Init /\ [][NextPreset]_vars

(***************************************************************************)
(* Controls and ChartDisplay: the Y-axis range fields.  Each edit goes     *)
(* through updateConfig, and the render that follows hands the new domain  *)
(* to the Y axis.                                                          *)
(***************************************************************************)
AxisTexts ==
  { Auto, <<>>, <<"0">>, <<"5">>, <<"1", "2">>, <<"-", "1">>, <<" ", "2">>,
    <<"a">>, <<"A", "u", "t", "o">> }

UpdateAxisConfig(config) ==
  /\ chartConfig' = config
  /\ yDomain' = yAxisDomain(config)
  /\ UNCHANGED <<inputData, parsingStatus, chartData, series, pc, frame, grid>>
  /\ UNCHANGED <<presetVars, labelOffsets, isDraggableMode, listeners>>

SetYAxisStartZero ==
  UpdateAxisConfig([chartConfig EXCEPT !.yAxisStartZero = ~chartConfig.yAxisStartZero])

\* The field is disabled while yAxisStartZero is set.
SetYAxisMin ==
  /\ ~chartConfig.yAxisStartZero
  /\ \E value \in AxisTexts :
       UpdateAxisConfig([chartConfig EXCEPT !.yAxisMin = value])

SetYAxisMax ==
  \E value \in AxisTexts :
    UpdateAxisConfig([chartConfig EXCEPT !.yAxisMax = value])

NextAxis ==
  \/ SetYAxisStartZero
  \/ SetYAxisMin
  \/ SetYAxisMax

SpecAxis == Init /\ [][NextAxis]_vars

(***************************************************************************)
(* ChartDisplay: the data labels and their drag.  The chart shows the      *)
(* parse of a table; a label is a series and the index of a DataPoint.     *)
(* Each mousedown taken in draggable mode puts a mousemove and a mouseup   *)
(* listener on the document; both close over the label's key and over the  *)
(* startPos ref of the label's component.                                  *)
(***************************************************************************)
\* A table of two series, and one whose two series columns have one name.
LabelTables ==
  { JoinLines(<< TableHeader, <<"x", ",", "1", ",", "2">> >>),
    <<"k", ",", "C", ",", "C", "\n", "x", ",", "1", ",", "1">> }

\* clientX and clientY of the mouse events.
MousePositions == { [x |-> 0, y |-> 0], [x |-> 1, y |-> 0], [x |-> 0, y |-> 1] }

InitLabel ==
  /\ \E text \in LabelTables :
       /\ inputData = text
       /\ chartData = parseRawInputToData(text).data
       /\ chartConfig = Merge(DEFAULT_CONFIG, parseRawInputToData(text).suggestedConfig)
       /\ series = newSeries(parseRawInputToData(text).seriesKeys)
  /\ parsingStatus = SUCCESS
  /\ pc = "idle"
  /\ frame = NoFrame
  /\ grid = <<>>
  /\ presets = <<>>
  /\ storage = NoItem
  /\ newPresetName = <<>>
  /\ labelOffsets = NoOffsets
  /\ isDraggableMode = FALSE
  /\ listeners = <<>>
  /\ yDomain = yAxisDomain(DEFAULT_CONFIG)

\* The labels of the chart: one per series and DataPoint, index from 0.
AllLabels == (1..Len(series)) \X (0..(Len(chartData) - 1))

\* The labels are drawn only while showLabels is set.
Labels == IF chartConfig.showLabels THEN AllLabels ELSE {}

\* `${s.dataKey}-${props.index}`
labelKey(label) == series[label[1]].dataKey \o <<"-">> \o NumberToString(label[2])

\* labelOffsets[labelKey] || { dx: 0, dy: 0 }
offset(offsets, label) ==
  IF labelKey(label) \in DOMAIN offsets THEN offsets[labelKey(label)]
  ELSE [dx |-> 0, dy |-> 0]

\* { ...prev, [key]: { dx, dy } }
handleLabelDrag(prev, key, dx, dy) ==
  [k \in (DOMAIN prev) \cup {key} |-> IF k = key THEN [dx |-> dx, dy |-> dy] ELSE prev[k]]

LabelVarsOnly ==
  /\ UNCHANGED <<inputData, parsingStatus, chartData, chartConfig, series, pc, frame, grid>>
  /\ UNCHANGED <<presetVars, yDomain>>

\* handleMouseDown of a label.  The new listeners and those the label's
\* component has put before share its startPos ref.
HandleMouseDown ==
  \E label \in Labels, e \in MousePositions :
    IF ~isDraggableMode THEN UNCHANGED vars
    ELSE LET startPos == [x |-> e.x, y |-> e.y,
                          offsetX |-> offset(labelOffsets, label).dx,
                          offsetY |-> offset(labelOffsets, label).dy]
             restarted == [k \in 1..Len(listeners) |->
                             IF listeners[k].label = label
                             THEN [listeners[k] EXCEPT !.startPos = startPos]
                             ELSE listeners[k]]
         IN  /\ Len(listeners) < MaxDrags
             /\ listeners' = Append(restarted, [label |-> label, labelKey |-> labelKey(label),
                                                 startPos |-> startPos])
             /\ UNCHANGED <<labelOffsets, isDraggableMode>>
             /\ LabelVarsOnly

\* The mousemove listeners of the document, in the order they were added.
RECURSIVE FireMouseMove(_, _, _)
FireMouseMove(offsets, k, moveEvent) ==
  IF k > Len(listeners) THEN offsets
  ELSE LET startPos == listeners[k].startPos
           dx == moveEvent.x - startPos.x + startPos.offsetX
           dy == moveEvent.y - startPos.y + startPos.offsetY
       IN  FireMouseMove(handleLabelDrag(offsets, listeners[k].labelKey, dx, dy), k + 1, moveEvent)

InRange(offsets) ==
  \A key \in DOMAIN offsets :
    /\ offsets[key].dx \in (0 - MaxOffset)..MaxOffset
    /\ offsets[key].dy \in (0 - MaxOffset)..MaxOffset

MouseMove ==
  \E moveEvent \in MousePositions :
    /\ InRange(FireMouseMove(labelOffsets, 1, moveEvent))
    /\ labelOffsets' = FireMouseMove(labelOffsets, 1, moveEvent)
    /\ UNCHANGED <<isDraggableMode, listeners>>
    /\ LabelVarsOnly

\* The mouseup listeners of the document: each takes itself and its
\* mousemove listener off.
MouseUp ==
  /\ listeners' = <<>>
  /\ UNCHANGED <<labelOffsets, isDraggableMode>>
  /\ LabelVarsOnly

\* The drag button, drawn while showLabels is set.
ToggleDraggableMode ==
  /\ chartConfig.showLabels
  /\ isDraggableMode' = ~isDraggableMode
  /\ UNCHANGED <<labelOffsets, listeners>>
  /\ LabelVarsOnly

\* The reset button, drawn while showLabels is set and some offset is kept.
ResetLabelPositions ==
  /\ chartConfig.showLabels
  /\ DOMAIN labelOffsets # {}
  /\ labelOffsets' = NoOffsets
  /\ UNCHANGED <<isDraggableMode, listeners>>
  /\ LabelVarsOnly

\* updateConfig('showLabels', e.target.checked)
SetShowLabels ==
  /\ chartConfig' = [chartConfig EXCEPT !.showLabels = ~chartConfig.showLabels]
  /\ UNCHANGED <<inputData, parsingStatus, chartData, series, pc, frame, grid>>
  /\ UNCHANGED <<presetVars, displayVars>>

NextLabel ==
  \/ HandleMouseDown
  \/ MouseMove
  \/ MouseUp
  \/ ToggleDraggableMode
  \/ ResetLabelPositions
  \/ SetShowLabels

SpecLabel == InitLabel /\ [][NextLabel]_vars

(***************************************************************************)
(* The parser as a function: handleParse applied to one text of            *)
(* ParseInputs, from the state App is constructed in.                      *)
(***************************************************************************)
InitParse ==
  /\ inputData \in ParseInputs
  /\ parsingStatus = IDLE
  /\ chartData = <<>>
  /\ chartConfig = DEFAULT_CONFIG
  /\ series = <<>>
  /\ pc = "idle"
  /\ frame = NoFrame
  /\ grid = <<>>
  /\ presets = <<>>
  /\ storage = NoItem
  /\ newPresetName = <<>>
  /\ labelOffsets = NoOffsets
  /\ isDraggableMode = FALSE
  /\ listeners = <<>>
  /\ yDomain = yAxisDomain(DEFAULT_CONFIG)

NextParse ==
  \/ HandleParseBegin
  \/ CallParse
  \/ HandleParseCommit
  \/ HandleParseCatch

SpecParse == InitParse /\ [][NextParse]_vars

TypeOK ==
  /\ parsingStatus \in {IDLE, PARSING, SUCCESS, ERROR}
  /\ pc \in {"idle", "parsing", "parsed"}
  /\ pc = "parsing" => parsingStatus = PARSING
  /\ pc # "parsed" => frame = NoFrame

(***************************************************************************)
(* Spreadsheet: the grid of cells and its edits, each of which hands the   *)
(* text of the new grid to setInputData.  Rows and columns are counted     *)
(* from 1 here.                                                            *)
(***************************************************************************)
MIN_ROWS == 5

MIN_COLS == 3

createEmptyGrid == [r \in 1..MIN_ROWS |-> [c \in 1..MIN_COLS |-> <<>>]]

\* row.join(sep)
Join(cells, sep) ==
  LET F[k \in 0..Len(cells)] ==
        IF k = 0 THEN <<>>
        ELSE IF k = 1 THEN cells[1]
        ELSE F[k - 1] \o sep \o cells[k]
  IN  F[Len(cells)]

\* The text updateParent hands to onChange.
updateParentSemicolons(newGrid) ==
  JoinLines([r \in 1..Len(newGrid) |-> Join(newGrid[r], <<";", " ">>)])

updateParent(newGrid) ==
  JoinLines([r \in 1..Len(newGrid) |-> Join(newGrid[r], <<",", " ">>)])

\* What the model's user types into a cell: nothing, a number, a name
\* after a blank.
GridCells == { <<>>, <<"1">>, <<" ", "a">> }

Filled(g) ==
  Cardinality({rc \in (1..Len(g)) \X (1..Len(g[1])) : g[rc[1]][rc[2]] # <<>>})

\* The grids of the model: of the size of the grid createEmptyGrid makes
\* at least, with at most MaxFilled cells that hold text.
Fits(g) ==
  /\ Len(g) <= MaxGridRows
  /\ Len(g[1]) <= MaxGridCols
  /\ Filled(g) <= MaxFilled

\* setGrid(newGrid); updateParent(newGrid)
SetGrid(newGrid) ==
  /\ pc = "idle"
  /\ Fits(newGrid)
  /\ grid' = newGrid
  /\ inputData' = updateParent(newGrid)
  /\ UNCHANGED <<parsingStatus, chartData, chartConfig, series, pc, frame>>
  /\ UNCHANGED <<presetVars, displayVars>>

EmptyRow(cols) == [c \in 1..cols |-> <<>>]

HandleCellChange ==
  \E rowIndex \in 1..Len(grid), colIndex \in 1..Len(grid[1]), value \in GridCells :
    LET set       == [grid EXCEPT ![rowIndex][colIndex] = value]
        trimmed   == Trim(value)
        isLastRow == rowIndex = Len(grid)
        isLastCol == colIndex = Len(grid[1])
        wide      == IF trimmed # <<>> /\ isLastCol
                     THEN [r \in 1..Len(set) |-> Append(set[r], <<>>)]
                     ELSE set
        newGrid   == IF trimmed # <<>> /\ isLastRow
                     THEN Append(wide, EmptyRow(IF Len(wide[1]) = 0 THEN MIN_COLS ELSE Len(wide[1])))
                     ELSE wide
    IN  SetGrid(newGrid)

AddRow ==
  LET cols == IF Len(grid[1]) = 0 THEN MIN_COLS ELSE Len(grid[1])
  IN  SetGrid(Append(grid, EmptyRow(cols)))

AddCol == SetGrid([r \in 1..Len(grid) |-> Append(grid[r], <<>>)])

ClearGrid == SetGrid(createEmptyGrid)

\* seq without its element at index
Without(seq, index) ==
  [k \in 1..(Len(seq) - 1) |-> IF k < index THEN seq[k] ELSE seq[k + 1]]

\* if (grid.length <= 1) return;
RemoveRow ==
  IF Len(grid) <= 1 THEN UNCHANGED vars
  ELSE \E index \in 1..Len(grid) : SetGrid(Without(grid, index))

\* As RemoveCol, but the cell is taken out of the first row alone.
RemoveColFirstRow ==
  IF Len(grid[1]) <= 1 THEN UNCHANGED vars
  ELSE \E index \in 1..Len(grid[1]) :
         SetGrid([grid EXCEPT ![1] = Without(grid[1], index)])

\* if (grid[0].length <= 1) return;
RemoveCol ==
  IF Len(grid[1]) <= 1 THEN UNCHANGED vars
  ELSE \E index \in 1..Len(grid[1]) :
         SetGrid([r \in 1..Len(grid) |-> Without(grid[r], index)])

\* The commas of s that have an even number of double quotes after them:
\* the matches of /,(?=(?:(?:[^"]*"){2})*[^"]*$)/.
CommasOutsideQuotes(s) ==
  {i \in 1..Len(s) :
     /\ s[i] = ","
     /\ Cardinality({j \in (i + 1)..Len(s) : s[j] = "\""}) % 2 = 0}

\* String.prototype.split at the positions at.
RECURSIVE SplitAt(_, _)
SplitAt(s, at) ==
  IF at = {} THEN <<s>>
  ELSE LET i == SetMin(at)
       IN  <<SubSeq(s, 1, i - 1)>> \o
           SplitAt(SubSeq(s, i + 1, Len(s)), {j - i : j \in at \ {i}})

SplitCommas(s) == SplitAt(s, CommasOutsideQuotes(s))

\* cell.trim().replace(/^"|"$/g, '')
CleanVal(cellData) ==
  LET t == Trim(cellData)
      a == IF t # <<>> /\ t[1] = "\"" THEN Tail(t) ELSE t
  IN  IF a # <<>> /\ a[Len(a)] = "\"" THEN SubSeq(a, 1, Len(a) - 1) ELSE a

\* while (row.length <= cIdx) row.push(''), cIdx counted from 1 here.
PadTo(row, cIdx) ==
  IF Len(row) >= cIdx THEN row ELSE row \o [k \in 1..(cIdx - Len(row)) |-> <<>>]

\* The cells of one pasted line, written from column startCol + j - 1 on;
\* a cell past the end of its row widens every row first.
RECURSIVE PasteCells(_, _, _, _, _)
PasteCells(g, rIdx, startCol, cells, j) ==
  IF j > Len(cells) THEN g
  ELSE LET cIdx == startCol + j - 1
           wide == IF cIdx > Len(g[rIdx])
                   THEN [r \in 1..Len(g) |-> PadTo(g[r], cIdx)]
                   ELSE g
       IN  PasteCells([wide EXCEPT ![rIdx][cIdx] = CleanVal(cells[j])],
                      rIdx, startCol, cells, j + 1)

\* while (newGrid.length <= rIdx) newGrid.push(Array(newGrid[0].length).fill(''))
RECURSIVE GrowTo(_, _)
GrowTo(g, rIdx) ==
  IF Len(g) >= rIdx THEN g ELSE GrowTo(Append(g, EmptyRow(Len(g[1]))), rIdx)

RECURSIVE PasteRows(_, _, _, _, _)
PasteRows(g, startRow, startCol, rows, i) ==
  IF i > Len(rows) THEN g
  ELSE LET rIdx   == startRow + i - 1
           rowStr == rows[i]
           cells  == IF \E k \in 1..Len(rowStr) : rowStr[k] = "\t"
                     THEN Split(rowStr, "\t")
                     ELSE SplitCommas(rowStr)
       IN  PasteRows(PasteCells(GrowTo(g, rIdx), rIdx, startCol, cells, 1),
                     startRow, startCol, rows, i + 1)

\* What the model's user pastes: nothing, a cell in quotes, two cells of a
\* line cut at a tab or at a comma, two lines, and two lines of which the
\* second is the longer.
PasteTexts ==
  { <<>>, <<"\"", "1", "\"">>, <<"1", "\t", "1">>, <<"1", ",", " ", "1">>,
    <<"1", "\r", "\n", "1">>, <<"1", "\n", ",", "1">> }

\* The model's user pastes into a cell of the first or the last row, in the
\* first or the last column.
HandlePaste ==
  \E startRow \in {1, Len(grid)}, startCol \in {1, Len(grid[1])}, pasteData \in PasteTexts :
    IF pasteData = <<>> THEN UNCHANGED vars
    ELSE SetGrid(PasteRows(grid, startRow, startCol, NonBlank(SplitLines(pasteData)), 1))

\* The grid the effect makes of the text data when the Spreadsheet mounts,
\* its grid still empty.
syncGrid(data) ==
  LET lines == NonBlank(SplitLines(data))
  IN  IF Len(lines) = 0 THEN createEmptyGrid
      ELSE LET parsed == [k \in 1..Len(lines) |->
                            LET pieces == SplitCommas(lines[k])
                            IN  [c \in 1..Len(pieces) |-> CleanVal(pieces[c])]]
               maxWidth == SetMax({Len(parsed[k]) : k \in 1..Len(parsed)} \cup {MIN_COLS})
               normalized == [k \in 1..Len(parsed) |-> PadTo(parsed[k], maxWidth)]
           IN  IF Len(normalized) >= MIN_ROWS THEN normalized
               ELSE normalized \o [k \in 1..(MIN_ROWS - Len(normalized)) |-> EmptyRow(maxWidth)]

\* The Spreadsheet mounted on a blank text and cleared: the empty grid and
\* its text.
InitGrid ==
  /\ grid = createEmptyGrid
  /\ presets = <<>>
  /\ storage = NoItem
  /\ newPresetName = <<>>
  /\ labelOffsets = NoOffsets
  /\ isDraggableMode = FALSE
  /\ listeners = <<>>
  /\ yDomain = yAxisDomain(DEFAULT_CONFIG)
  /\ inputData = updateParent(createEmptyGrid)
  /\ parsingStatus = IDLE
  /\ chartData = <<>>
  /\ chartConfig = DEFAULT_CONFIG
  /\ series = <<>>
  /\ pc = "idle"
  /\ frame = NoFrame

NextGrid ==
  \/ HandleCellChange
  \/ AddRow
  \/ AddCol
  \/ ClearGrid
  \/ RemoveRow
  \/ RemoveCol
  \/ HandlePaste

SpecGrid == InitGrid /\ [][NextGrid]_vars

(***************************************************************************)
(* What the claims speak of, stated on the text itself.                    *)
(***************************************************************************)
\* The places where a non-empty line begins: a character that is no white
\* space, with a line break between it and every such character before it.
LineStarts(text) ==
  {i \in 1..Len(text) :
     /\ text[i] \notin WhiteSpace
     /\ \A j \in 1..(i - 1) :
          text[j] \notin WhiteSpace => \E k \in (j + 1)..(i - 1) : text[k] = "\n"}

NonEmptyLines(text) == Cardinality(LineStarts(text))

Occurrences(line, d) == Cardinality({i \in 1..Len(line) : line[i] = d})

Candidates == <<",", "\t", ";">>

\* The first candidate whose count in the header is maximal.
HeaderDelimiter(headerLine) ==
  Candidates[CHOOSE k \in 1..3 :
     /\ \A j \in 1..3 : Occurrences(headerLine, Candidates[j]) <= Occurrences(headerLine, Candidates[k])
     /\ \A j \in 1..(k - 1) : Occurrences(headerLine, Candidates[j]) < Occurrences(headerLine, Candidates[k])]

\* The cells of a line cut at d, each trimmed and stripped of its quotes.
Cells(line, d) ==
  LET parts == Split(line, d)
  IN  [k \in 1..Len(parts) |-> StripQuotes(Trim(parts[k]))]

Range(f) == {f[k] : k \in DOMAIN f}

Returned == pc = "parsed" /\ ~frame.threw

\* The data lines that are sampled: the first five, or all if fewer.
Sampled == {r \in 1..Len(frame.dataRows) : r <= 5}

\* Column c holds a number in every sampled line that reaches it, and some
\* sampled line reaches it.
NumericIn(c, d) ==
  /\ \A r \in Sampled :
       Len(Cells(frame.dataRows[r], d)) > c => ~ParseFloat(Cells(frame.dataRows[r], d)[c + 1]).nan
  /\ \E r \in Sampled : Len(Cells(frame.dataRows[r], d)) > c

\* The number a cell stands for in a DataPoint.
NumberOf(row, c) ==
  IF c < Len(row) /\ ~ParseFloat(row[c + 1]).nan THEN ParseFloat(row[c + 1]).val ELSE 0

\* The object the assignments of one data line leave behind: a field per
\* series key, written by the last series column of that name, and the label
\* unless a series is named "label".
PointOf(row, headers, seriesIndices) ==
  LET keys == {headers[seriesIndices[k] + 1] : k \in 1..Len(seriesIndices)}
      last(key) == SetMax({k \in 1..Len(seriesIndices) : headers[seriesIndices[k] + 1] = key})
  IN  [key \in {LabelKey} \cup keys |->
         IF key \in keys THEN Num(NumberOf(row, seriesIndices[last(key)]))
         ELSE Str(row[1])]

(***************************************************************************)
(* C1..C10                                                                 *)
(***************************************************************************)
\* C1: a text with fewer than 2 non-empty lines makes parseRawInputToData
\* throw, returning no rows, no series keys and no suggested config, and
\* handleParse then ends with status ERROR.
C1_FewLinesFail ==
  NonEmptyLines(inputData) < 2 =>
    /\ pc = "parsed" =>
         /\ frame.threw
         /\ frame.data = <<>> /\ frame.seriesKeys = <<>> /\ frame.suggestedConfig = <<>>
    /\ (pc = "idle" /\ parsingStatus # IDLE) => parsingStatus = ERROR

C1_Witness ==
  /\ pc = "idle" /\ parsingStatus = ERROR
  /\ NonEmptyLines(inputData) = 1
  /\ \E i \in 1..Len(inputData) : inputData[i] = "\n"

\* C2: every step of a handleParse attempt that fails leaves chartData,
\* series, chartConfig and the input text as they were, whatever earlier
\* parses made them; the last step sets the status to ERROR.
C2_FailureCommitsNothing ==
  [][ (pc' \in {"parsing", "parsed"} \/ (pc = "parsed" /\ frame.threw)) =>
        /\ chartData' = chartData
        /\ series' = series
        /\ chartConfig' = chartConfig
        /\ inputData' = inputData
        /\ (pc = "parsed" => parsingStatus' = ERROR) ]_vars

C2_Witness ==
  /\ pc = "idle" /\ parsingStatus = ERROR
  /\ chartData # <<>> /\ series # <<>> /\ chartConfig # DEFAULT_CONFIG

\* C3: a text with at least 2 non-empty lines never makes the parse throw,
\* whatever its cells hold, and handleParse ends with status SUCCESS.
C3_OnlyError ==
  NonEmptyLines(inputData) >= 2 =>
    /\ pc = "parsed" => ~frame.threw
    /\ (pc = "idle" /\ parsingStatus # IDLE) => parsingStatus = SUCCESS

\* A ragged table: a cell that is no number, an empty cell's worth of
\* missing columns, a line wider than the header.
C3_Witness ==
  /\ pc = "idle" /\ parsingStatus = SUCCESS
  /\ inputData = JoinLines(<< TableHeader,
                              <<"x", ",", "a", ",", "2">>,
                              <<"x">>,
                              <<"y", ",", "-", "5", ",", "6", ",", "7">> >>)

\* C4: the delimiter is a candidate whose count in the header line is
\* maximal and strictly greater than the count of every candidate before it
\* in the order comma, tab, semicolon; all counts zero gives comma.
C4_FirstMaximalDelimiter ==
  Returned =>
    LET h == frame.lines[1]
    IN  /\ \E k \in 1..3 :
             /\ frame.delimiter = Candidates[k]
             /\ \A j \in 1..3 : Occurrences(h, Candidates[j]) <= Occurrences(h, Candidates[k])
             /\ \A j \in 1..(k - 1) : Occurrences(h, Candidates[j]) < Occurrences(h, Candidates[k])
        /\ (\A j \in 1..3 : Occurrences(h, Candidates[j]) = 0) => frame.delimiter = ","

\* Tab and semicolon tie at two, no comma: tab, the earlier one, is chosen.
C4_Witness ==
  /\ Returned
  /\ frame.delimiter = "\t"
  /\ Occurrences(frame.lines[1], "\t") = 2
  /\ Occurrences(frame.lines[1], ";") = 2
  /\ Occurrences(frame.lines[1], ",") = 0

\* C5: the delimiter is a function of the header line alone, and both the
\* sampling and the rows are those of the data lines cut at that delimiter:
\* the numeric columns are the columns numeric in the sampled lines so cut,
\* and DataPoint i is built from the cells of data line i so cut.
C5_OneDelimiter ==
  Returned =>
    LET d       == HeaderDelimiter(frame.lines[1])
        headers == Cells(frame.lines[1], d)
    IN  /\ frame.delimiter = d
        /\ Range(frame.numericColumnIndices) = {c \in 1..(Len(headers) - 1) : NumericIn(c, d)}
        /\ Len(frame.data) = Len(frame.dataRows)
        /\ \A i \in 1..Len(frame.dataRows) :
             frame.data[i] = PointOf(Cells(frame.dataRows[i], d), headers, frame.seriesIndices)

\* The header is cut at commas, the data line holds more semicolons.
C5_Witness ==
  /\ Returned
  /\ frame.delimiter = ","
  /\ frame.dataRows = << <<"1", ";", "2", ";", "3", ",", "4">> >>
  /\ frame.data[1][LabelKey] = Str(<<"1", ";", "2", ";", "3">>)

\* The first cell of data line i as typed, before trimming.
RawLabel(i) == Split(frame.dataRows[i], frame.delimiter)[1]

\* The same quote character is the first and the last character of t.
Wrapped(t) == t # <<>> /\ t[1] \in Quotes /\ t[Len(t)] = t[1]

LabelShown == Returned /\ LabelKey \notin Range(frame.seriesKeys)

\* C6: a cell loses its quotes only if the same quote character is its
\* first and its last character after trimming; any other cell is only
\* trimmed.  Read off the label of each DataPoint.
C6_QuotesStrippedOnlyInPairs ==
  LabelShown =>
    \A i \in 1..Len(frame.dataRows) :
      LET t == Trim(RawLabel(i))
      IN  frame.data[i][LabelKey] =
            Str(IF Wrapped(t) THEN SubSeq(t, 2, Len(t) - 1) ELSE t)

\* C7: the cell is trimmed before its quotes are looked at, and one layer
\* of quotes goes: a trimmed cell wrapped in a quote pair becomes what the
\* pair holds (bare text, or the inner pair of two), and no cell loses more
\* than one character at either end of its trimmed text.
C7_TrimThenOneLayer ==
  LabelShown =>
    \A i \in 1..Len(frame.dataRows) :
      LET t     == Trim(RawLabel(i))
          label == frame.data[i][LabelKey].s
      IN  /\ Wrapped(t) => label = SubSeq(t, 2, Len(t) - 1)
          /\ \E a, b \in 0..1 : label = SubSeq(t, 1 + a, Len(t) - b)

\* A cell of two quote pairs keeps the inner pair.
C7_Witness ==
  /\ LabelShown
  /\ RawLabel(1) = <<"\"", "\"", "a", "\"", "\"">>
  /\ frame.data[1][LabelKey] = Str(<<"\"", "a", "\"">>)

\* C8: column c of 1..len(headers)-1 is numeric exactly if every one of the
\* first min(5, n) data lines that has a cell at c has a number there and at
\* least one of them has a cell at c.
C8_NumericColumns ==
  Returned =>
    /\ Range(frame.numericColumnIndices) \subseteq 1..(Len(frame.headers) - 1)
    /\ \A c \in 1..(Len(frame.headers) - 1) :
         (c \in Range(frame.numericColumnIndices)) <=> NumericIn(c, frame.delimiter)

\* The first line is too short to reach any column and the sixth one, past
\* the sample, holds a letter in column 1: both columns are numeric.
C8_Witness ==
  /\ Returned
  /\ Len(frame.dataRows) = 6
  /\ frame.dataRows[1] = <<"x">>
  /\ frame.dataRows[6] = <<"x", ",", "a", ",", "2">>
  /\ frame.numericColumnIndices = <<1, 2>>

NumericSet == {c \in 1..(Len(frame.headers) - 1) : NumericIn(c, frame.delimiter)}

\* C9: when some column is numeric, the series are the numeric columns in
\* strictly ascending order, the series keys their header names, column 0
\* is none of them, and a DataPoint holds the label and the fields named by
\* the numeric columns and nothing else.
C9_SeriesAreNumericColumns ==
  (Returned /\ NumericSet # {}) =>
    /\ Range(frame.seriesIndices) = NumericSet
    /\ \A j, k \in 1..Len(frame.seriesIndices) :
         j < k => frame.seriesIndices[j] < frame.seriesIndices[k]
    /\ 0 \notin Range(frame.seriesIndices)
    /\ frame.seriesKeys =
         [k \in 1..Len(frame.seriesIndices) |-> frame.headers[frame.seriesIndices[k] + 1]]
    /\ \A i \in 1..Len(frame.data) :
         DOMAIN frame.data[i] = {LabelKey} \cup {frame.headers[c + 1] : c \in NumericSet}

\* Column A holds a letter, column B numbers: B alone is a series.
C9_Witness ==
  /\ Returned
  /\ frame.headers = << <<"k">>, <<"A">>, <<"B">> >>
  /\ frame.dataRows[1] = <<"x", ",", "a", ",", "2">>
  /\ frame.seriesKeys = << <<"B">> >>
  /\ DOMAIN frame.data[1] = {LabelKey, <<"B">>}

\* C10: when no column is numeric, every column but column 0 is a series,
\* in header order, and in every DataPoint the field of a column whose cell
\* is no number is 0.
C10_FallbackZeroes ==
  (Returned /\ NumericSet = {}) =>
    /\ frame.seriesKeys = Tail(frame.headers)
    /\ \A i \in 1..Len(frame.data) :
         LET row == Cells(frame.dataRows[i], frame.delimiter)
         IN  \A c \in 1..(Len(frame.headers) - 1) :
               (c < Len(row) /\ ParseFloat(row[c + 1]).nan) =>
                 frame.data[i][frame.headers[c + 1]] = Num(0)

(***************************************************************************)
(* C11..C20                                                                *)
(***************************************************************************)
\* The header and the first five data lines of the call, as a text of their
\* own.
SampledText ==
  JoinLines(SubSeq(frame.lines, 1, IF Len(frame.lines) < 6 THEN Len(frame.lines) ELSE 6))

\* C11: the series keys of a text are those of the text made of its header
\* and its first 5 data lines alone; so two texts that agree on these lines
\* have the same series keys, whatever their lines from the 6th on hold.
C11_SampleDecidesSeries ==
  Returned => frame.seriesKeys = parseRawInputToData(SampledText).seriesKeys

\* Five lines of numbers, then a sixth with a letter in column A: both
\* columns are series, as without the sixth line.
C11_Witness ==
  /\ Returned
  /\ Len(frame.dataRows) = 6
  /\ \A r \in 1..5 : frame.dataRows[r] = <<"x", ",", "1", ",", "2">>
  /\ frame.dataRows[6] = <<"x", ",", "a", ",", "2">>
  /\ frame.seriesKeys = << <<"A">>, <<"B">> >>

\* C12: for every data line, sampled or not, the DataPoint of the line has
\* as label the first cell of the line, trimmed and stripped of quotes, and
\* under the key of each series column the number of the cell at that
\* column, 0 when the cell is missing or no number.
C12_EveryLineItsPoint ==
  Returned =>
    /\ Len(frame.data) = Len(frame.dataRows)
    /\ \A i \in 1..Len(frame.dataRows) :
         LET row == Cells(frame.dataRows[i], frame.delimiter)
         IN  /\ frame.data[i][LabelKey] = Str(row[1])
             /\ \A k \in 1..Len(frame.seriesIndices) :
                  frame.data[i][frame.headers[frame.seriesIndices[k] + 1]] =
                    Num(NumberOf(row, frame.seriesIndices[k]))

\* The data lines that give at least one cell when cut at the delimiter.
Emitting == {i \in 1..Len(frame.dataRows) : Len(Split(frame.dataRows[i], frame.delimiter)) >= 1}

\* C13: there is one DataPoint per non-empty data line that gives at least
\* one cell, as many as the text has non-empty lines after the header, and
\* the DataPoints stand in the order of their lines.
C13_OnePointPerLine ==
  Returned =>
    /\ Len(frame.data) = Cardinality(Emitting)
    /\ Len(frame.data) = NonEmptyLines(inputData) - 1
    /\ \A i \in Emitting :
         frame.data[Cardinality({j \in Emitting : j <= i})] =
           PointOf(Cells(frame.dataRows[i], frame.delimiter), frame.headers, frame.seriesIndices)

\* Three ragged lines, the second of one cell only: three DataPoints, in
\* the order of the lines.
C13_Witness ==
  /\ Returned
  /\ frame.headers = << <<"k">>, <<"A">>, <<"B">> >>
  /\ frame.dataRows = << <<"y", ",", "4">>, <<"x">>, <<"y", ",", "-", "5", ",", "6", ",", "7">> >>
  /\ Len(frame.data) = 3
  /\ frame.data[1][<<"A">>] = Num(4)
  /\ frame.data[2][LabelKey] = Str(<<"x">>)
  /\ frame.data[3][<<"A">>] = Num(0 - 5)

Month == <<"M", "o", "n", "t", "h">>

Sales == <<"S", "a", "l", "e", "s">>

Expenses == <<"E", "x", "p", "e", "n", "s", "e", "s">>

ExamplePoint(label, sales, expenses) ==
  [key \in {LabelKey, Sales, Expenses} |->
     IF key = LabelKey THEN Str(label) ELSE IF key = Sales THEN Num(sales) ELSE Num(expenses)]

ExampleData ==
  << ExamplePoint(<<"J", "a", "n">>, 4000, 2400), ExamplePoint(<<"F", "e", "b">>, 3000, 1398) >>

\* C15: the text "Month, Sales, Expenses" over "Jan, 4000, 2400" and
\* "Feb, 3000, 1398" is cut at commas, has the headers Month, Sales and
\* Expenses, the series keys Sales and Expenses, and exactly the two
\* DataPoints {Jan, 4000, 2400} and {Feb, 3000, 1398} in this order, which
\* handleParse commits.
C15_Example ==
  inputData = ExampleText =>
    /\ pc = "parsed" =>
         /\ ~frame.threw
         /\ frame.delimiter = ","
         /\ frame.headers = <<Month, Sales, Expenses>>
         /\ frame.seriesKeys = <<Sales, Expenses>>
         /\ frame.data = ExampleData
    /\ (pc = "idle" /\ parsingStatus # IDLE) => chartData = ExampleData

C15_Witness ==
  /\ inputData = ExampleText
  /\ pc = "idle" /\ parsingStatus = SUCCESS
  /\ Len(chartData) = 2
  /\ chartData[2][Expenses] = Num(1398)

\* C16: the suggested y-axis label of a successful parse is the series key
\* when there is exactly one, and "Value" when there is none or there are
\* two or more.
C16_YAxisLabel ==
  Returned =>
    /\ Len(frame.seriesKeys) = 1 => frame.suggestedConfig.yAxisLabel = frame.seriesKeys[1]
    /\ Len(frame.seriesKeys) = 0 => frame.suggestedConfig.yAxisLabel = Value
    /\ Len(frame.seriesKeys) >= 2 => frame.suggestedConfig.yAxisLabel = Value

\* Column A holds a letter: B is the one series and names the y axis.
C16_Witness ==
  /\ Returned
  /\ frame.seriesKeys = << <<"B">> >>
  /\ Len(frame.headers) = 3
  /\ frame.suggestedConfig.yAxisLabel = <<"B">>

\* C17: the suggested x-axis label of a successful parse is the first
\* header when that is not the empty string, and "Category" when it is.
C17_XAxisLabel ==
  Returned =>
    /\ frame.headers[1] # <<>> => frame.suggestedConfig.xAxisLabel = frame.headers[1]
    /\ frame.headers[1] = <<>> => frame.suggestedConfig.xAxisLabel = Category

\* The header line begins with its delimiter: the first header is empty.
C17_Witness ==
  /\ Returned
  /\ frame.lines[1][1] = frame.delimiter
  /\ frame.headers[1] = <<>>
  /\ frame.suggestedConfig.xAxisLabel = Category

\* C19: the step that commits a successful parse sets series to one entry
\* per series key, in the order of the keys: entry i has the key as
\* dataKey, the key with its first character in upper case as name, and as
\* colour the palette entry i mod 6, counting entries and colours from 0.
C19_SeriesList ==
  [][ (pc = "parsed" /\ ~frame.threw) =>
        /\ Len(series') = Len(frame.seriesKeys)
        /\ \A i \in 1..Len(frame.seriesKeys) :
             LET key == frame.seriesKeys[i]
                 name == series'[i].name
             IN  /\ series'[i].dataKey = key
                 /\ Len(name) = Len(key)
                 /\ \A j \in 1..Len(key) :
                      name[j] = IF j = 1 THEN ToUpperCase(key[1]) ELSE key[j]
                 /\ series'[i].color = colors[((i - 1) % 6) + 1] ]_vars

\* Seven series: the seventh has the first colour again.
C19_Witness ==
  /\ pc = "idle" /\ parsingStatus = SUCCESS
  /\ Len(series) = 7
  /\ series[7].dataKey = <<"a", "b">>
  /\ series[7].name = <<"A", "b">>
  /\ series[7].color = colors[1]
  /\ series[6].color = colors[6]

\* C18: the status starts as IDLE; a handleParse sets it to PARSING first
\* and comes to its end in two more steps, with SUCCESS or ERROR: the call
\* of the parser, which returns or throws, and then the rest of the try
\* block or the catch block; so between two calls the status is never
\* PARSING, and once it has left IDLE it is never IDLE again.
C18_StatusProtocol ==
  /\ parsingStatus = IDLE
  /\ [][ /\ (pc = "idle" /\ pc' # "idle") => (pc' = "parsing" /\ parsingStatus' = PARSING)
         /\ pc = "parsing" => (pc' = "parsed" /\ parsingStatus' = PARSING)
         /\ pc = "parsed" => (pc' = "idle" /\ parsingStatus' \in {SUCCESS, ERROR})
         /\ pc' = "idle" => parsingStatus' # PARSING
         /\ parsingStatus # IDLE => parsingStatus' # IDLE
         /\ pc' = "parsed" => frame'.threw \in BOOLEAN ]_vars

\* After the parse of the initial text the text was changed: the status is
\* still SUCCESS.
C18_Witness ==
  /\ pc = "idle" /\ parsingStatus = SUCCESS
  /\ inputData # DEFAULT_DATA
  /\ Len(chartData) = 6

\* What handleParse makes of a text in the state App is constructed in.
FirstData(text) == parseRawInputToData(text).data

FirstSeries(text) == newSeries(parseRawInputToData(text).seriesKeys)

FirstSuggested(text) == parseRawInputToData(text).suggestedConfig

\* C14: whatever parses, configuration edits and series colour changes came
\* before, the step that commits a successful parse leaves chartData and
\* series as the first parse of the same text after construction does; and
\* when the state is already the one such a parse leaves, as after a parse
\* of the same text just before, the step changes nothing of chartData,
\* series and chartConfig.
C14_ParseIsPure ==
  [][ (pc = "parsed" /\ ~frame.threw) =>
        /\ chartData' = FirstData(inputData)
        /\ series' = FirstSeries(inputData)
        /\ ( /\ chartData = FirstData(inputData)
             /\ series = FirstSeries(inputData)
             /\ chartConfig = Merge(chartConfig, FirstSuggested(inputData)) )
           => UNCHANGED <<chartData, series, chartConfig>> ]_vars

\* The example text is parsed in a history that holds a style edit, the
\* grid switched off: chartData and series are those of its first parse.
C14_Witness ==
  /\ pc = "idle" /\ parsingStatus = SUCCESS
  /\ inputData = ExampleText
  /\ chartData = ExampleData
  /\ series = FirstSeries(ExampleText)
  /\ chartConfig.grid = FALSE
  /\ chartConfig.title = ChartTitle

\* No cell of the grid holds a delimiter, a quote or a line break.
CleanGrid ==
  \A r \in 1..Len(grid), c \in 1..Len(grid[1]) :
    \A k \in 1..Len(grid[r][c]) :
      grid[r][c][k] \notin {",", "\t", ";", "\"", "'", "\n", "\r"}

TrimmedRow(r) == [c \in 1..Len(grid[r]) |-> Trim(grid[r][c])]

\* The engine reads the text of the grid as the grid: comma is the
\* delimiter, the headers are the first row and data line i is row i + 1,
\* cells trimmed.
ReadAsGrid ==
  LET f == parseRawInputToData(inputData)
  IN  /\ ~f.threw
      /\ f.delimiter = ","
      /\ f.headers = TrimmedRow(1)
      /\ Len(f.dataRows) = Len(grid) - 1
      /\ \A i \in 1..Len(f.dataRows) : Cells(f.dataRows[i], f.delimiter) = TrimmedRow(i + 1)

\* C20 as stated: after any grid edit, the text of a grid whose cells hold
\* no delimiter, quote or line break is read by the engine as the grid.
C20_GridTextReadAsTyped == CleanGrid => ReadAsGrid

\* Every row gives a line that is not blank: the grid has two or more
\* columns, or no cell that is blank.
NoBlankLine ==
  Len(grid[1]) >= 2 \/ \A r \in 1..Len(grid) : Trim(grid[r][1]) # <<>>

\* C20, amended: after any grid edit, the text of a grid of at least two
\* rows, none of which is a single blank cell, whose cells hold no
\* delimiter, quote or line break, is read by the engine as the grid.
C20_GridTextReadAsTypedAmended ==
  (CleanGrid /\ Len(grid) >= 2 /\ NoBlankLine) => ReadAsGrid

\* A header of an empty cell and a name typed after a blank, over a line
\* with a number and a line of empty cells.
C20_Witness ==
  /\ grid = << << <<>>, <<" ", "a">> >>, << <<>>, <<"1">> >>, << <<>>, <<>> >> >>
  /\ inputData = <<",", " ", " ", "a", "\n", ",", " ", "1", "\n", ",", " ">>
  /\ parseRawInputToData(inputData).headers = << <<>>, <<"a">> >>
  /\ parseRawInputToData(inputData).seriesKeys = << <<"a">> >>
  /\ Len(parseRawInputToData(inputData).data) = 2

(***************************************************************************)
(* C21..C30                                                                *)
(***************************************************************************)
\* Every character of the text is white space.
Blank(text) == \A i \in 1..Len(text) : text[i] \in WhiteSpace

\* C21: a handleParse starts only when the status is not PARSING and the
\* text is not blank; while one is under way no other one starts, the text
\* stays as it is and the only steps taken are its own, in their order.
C21_TriggerGuard ==
  [][ /\ (pc = "idle" /\ pc' # "idle") =>
           (pc' = "parsing" /\ parsingStatus # PARSING /\ ~Blank(inputData))
      /\ pc = "parsing" => (pc' = "parsed" /\ inputData' = inputData)
      /\ pc = "parsed" => (pc' = "idle" /\ inputData' = inputData)
      /\ pc' # "idle" => ~Blank(inputData') ]_vars

\* A text of line breaks only, after a parse: the button is disabled.
C21_Witness ==
  /\ pc = "idle" /\ parsingStatus = SUCCESS
  /\ inputData # <<>> /\ Blank(inputData)
  /\ ~ENABLED ClickParse

\* C22: createPreset with a non-blank name appends a preset that holds the
\* trimmed name and the configuration of that moment, and empties the name
\* field; with a blank name it changes nothing; no edit of the live
\* configuration changes a stored preset; loadPreset makes the live
\* configuration the one its preset holds, which is therefore the
\* configuration at the time the preset was saved.
C22_PresetRoundTrip ==
  [][ /\ CreatePreset =>
           IF Blank(newPresetName) THEN UNCHANGED vars
           ELSE /\ Len(presets') = Len(presets) + 1
                /\ SubSeq(presets', 1, Len(presets)) = presets
                /\ presets'[Len(presets')].name = Trim(newPresetName)
                /\ presets'[Len(presets')].config = chartConfig
                /\ chartConfig' = chartConfig
      /\ chartConfig' # chartConfig => presets' = presets
      /\ \A index \in 1..Len(presets) :
           LoadPresetAt(index) =>
             (chartConfig' = presets[index].config /\ presets' = presets)
      /\ \A index \in 1..Len(presets') : ~Blank(presets'[index].name) ]_vars

\* A preset saved with the grid on and the first title; the live
\* configuration, edited since, differs from it.
C22_Witness ==
  /\ Len(presets) = 1
  /\ presets[1].name = <<"p">>
  /\ presets[1].config = DEFAULT_CONFIG
  /\ chartConfig.title = <<"T">>
  /\ chartConfig.grid = FALSE

\* C23: deletePreset of a preset of the list removes that preset only: the
\* others stay, as they were and in their order, in the list and in the
\* list written to localStorage.
C23_DeleteOne ==
  [][ \A index \in 1..Len(presets) :
        DeletePresetAt(index) =>
          /\ presets' = Without(presets, index)
          /\ storage'.set /\ storage'.list = Without(presets, index) ]_vars

\* C24: the lower bound of the Y-axis domain is 0 whenever yAxisStartZero is
\* set, whatever yAxisMin holds; otherwise it is the data minimum when
\* yAxisMin is 'auto' or empty and parseFloat(yAxisMin) else.  The upper
\* bound is the data maximum when yAxisMax is 'auto' or empty and
\* parseFloat(yAxisMax) else.
Unset(text) == text = Auto \/ text = <<>>

C24_YAxisDomain ==
  /\ chartConfig.yAxisStartZero => yDomain[1] = Zero
  /\ (~chartConfig.yAxisStartZero /\ Unset(chartConfig.yAxisMin))
       => yDomain[1] = DataMin
  /\ (~chartConfig.yAxisStartZero /\ ~Unset(chartConfig.yAxisMin))
       => yDomain[1] = Number(ParseFloat(chartConfig.yAxisMin))
  /\ Unset(chartConfig.yAxisMax) => yDomain[2] = DataMax
  /\ ~Unset(chartConfig.yAxisMax)
       => yDomain[2] = Number(ParseFloat(chartConfig.yAxisMax))

\* yAxisMin was set to 5 and yAxisStartZero switched on afterwards: the
\* domain is [0, 12].
C24_Witness ==
  /\ chartConfig.yAxisStartZero
  /\ chartConfig.yAxisMin = <<"5">>
  /\ chartConfig.yAxisMax = <<"1", "2">>
  /\ yDomain = <<Zero, Number([nan |-> FALSE, val |-> 12])>>

\* C25: the commit of a successful parse sets title to 'Chart Title',
\* xAxisLabel and yAxisLabel to the parser's suggestions, xAxisLabelPosition
\* to 'rightEnd' and yAxisLabelPosition to 'aboveArrow'; every other field
\* of the configuration keeps the value it had before the parse, and no
\* field is added or removed.
Suggested ==
  {"title", "xAxisLabel", "yAxisLabel", "xAxisLabelPosition", "yAxisLabelPosition"}

C25_ParseOverwritesFive ==
  [][ (pc = "parsed" /\ ~frame.threw) =>
        /\ parsingStatus' = SUCCESS
        /\ DOMAIN chartConfig' = DOMAIN chartConfig
        /\ chartConfig'.title = ChartTitle
        /\ chartConfig'.xAxisLabel = frame.suggestedConfig.xAxisLabel
        /\ chartConfig'.yAxisLabel = frame.suggestedConfig.yAxisLabel
        /\ chartConfig'.xAxisLabelPosition = "rightEnd"
        /\ chartConfig'.yAxisLabelPosition = "aboveArrow"
        /\ \A k \in (DOMAIN chartConfig) \ Suggested :
             chartConfig'[k] = chartConfig[k] ]_vars

\* The grid was switched off and the title retyped, and a parse has
\* succeeded: the title is the placeholder again, the grid is still off.
C25_Witness ==
  /\ pc = "idle"
  /\ parsingStatus = SUCCESS
  /\ chartConfig.grid = FALSE
  /\ chartConfig.title = ChartTitle
  /\ chartConfig.xAxisLabel = <<"k">>
  /\ chartConfig.xAxisLabelPosition = "rightEnd"

\* C26: whatever the header, every DataPoint has as label the first cell of
\* its line and one numeric entry per series column, so that it holds as
\* many numeric entries as there are series keys.
NumericEntries(point) == {key \in DOMAIN point : point[key].t = "number"}

C26_OneEntryPerSeries ==
  Returned =>
    \A i \in Emitting :
      LET point == frame.data[Cardinality({j \in Emitting : j <= i})]
      IN  /\ point[LabelKey] = Str(Cells(frame.dataRows[i], frame.delimiter)[1])
          /\ Cardinality(NumericEntries(point)) = Len(frame.seriesKeys)

\* C27: the engine reads the text of the grid as if the rows whose cells
\* are all empty were blank lines, that is, as it reads the text of the
\* grid's other rows alone: the same outcome, the same DataPoints and the
\* same series keys.
HoldsText(row) == \E c \in 1..Len(row) : row[c] # <<>>

C27_EmptyRowsAreBlankLines ==
  LET f == parseRawInputToData(inputData)
      g == parseRawInputToData(updateParent(SelectSeq(grid, HoldsText)))
  IN  /\ f.threw = g.threw
      /\ f.data = g.data
      /\ f.seriesKeys = g.seriesKeys

\* C28: every grid operation leaves a grid of at least one row and at least
\* one column whose rows all have the same number of cells, as is the grid
\* the mount makes of any text the grid emits; removeRow on a grid of one
\* row and removeCol on a grid of one column change neither the grid nor
\* the text.
Rectangular(g) == \A r \in 1..Len(g) : Len(g[r]) = Len(g[1])

WellFormed(g) == Len(g) >= 1 /\ Len(g[1]) >= 1 /\ Rectangular(g)

C28_GridStaysRectangular ==
  /\ WellFormed(grid)
  /\ WellFormed(syncGrid(inputData))
  /\ Len(grid) = 1 => ~ENABLED <<RemoveRow>>_<<grid, inputData>>
  /\ Len(grid[1]) = 1 => ~ENABLED <<RemoveCol>>_<<grid, inputData>>

\* Two lines, the second the longer, were pasted into the only cell of a
\* grid of one row and one column: two rows of two cells.
C28_Witness ==
  /\ grid = << << <<"1">>, <<>> >>, << <<>>, <<"1">> >> >>
  /\ inputData = <<"1", ",", " ", "\n", ",", " ", "1">>

\* C29: when a parse succeeds, the series list it leaves is non-empty
\* exactly if the header line, cut at the delimiter, has two columns or
\* more; under a header of one column the parse succeeds with no series
\* and DataPoints that hold a label and nothing else.
HeaderColumns == Len(Split(frame.lines[1], frame.delimiter))

C29_SeriesIffTwoColumns ==
  [][ (pc = "parsed" /\ ~frame.threw) =>
        /\ parsingStatus' = SUCCESS
        /\ series' # <<>> <=> HeaderColumns >= 2
        /\ HeaderColumns = 1 =>
             /\ chartData' # <<>>
             /\ \A i \in 1..Len(chartData') : DOMAIN chartData'[i] = {LabelKey} ]_vars

\* A header of one column over a line of four cells: the parse has
\* succeeded with no series and one DataPoint, which holds the label only.
C29_Witness ==
  /\ pc = "idle"
  /\ parsingStatus = SUCCESS
  /\ inputData = <<"h", "\n", "1", ";", "2", ";", "3", ",", "4">>
  /\ series = <<>>
  /\ Len(chartData) = 1
  /\ DOMAIN chartData[1] = {LabelKey}

\* C30: the offset of a label changes only while a drag of that label is
\* under way, that is, after a mousedown it took in draggable mode and up
\* to the next mouseup, or when resetLabelPositions clears all offsets; a
\* mousedown outside draggable mode starts no drag, and after
\* resetLabelPositions every label has the offset 0, 0.
Dragged(label) == \E k \in 1..Len(listeners) : listeners[k].label = label

C30_OffsetChangesOnlyInDrag ==
  [][ /\ \A label \in AllLabels :
           offset(labelOffsets', label) # offset(labelOffsets, label)
             => (Dragged(label) \/ labelOffsets' = NoOffsets)
      /\ ~isDraggableMode => Len(listeners') <= Len(listeners)
      /\ ResetLabelPositions =>
           \A label \in AllLabels : offset(labelOffsets', label) = [dx |-> 0, dy |-> 0] ]_vars

====
